---- MODULE Spec2Model ----
(***************************************************************************)
(* Credential/token lifecycle of the public_trading client.                *)
(*                                                                         *)
(*   Creds        (src/src/creds.rs)  : the cached bearer token, its       *)
(*                                      expiry and the persisted file.     *)
(*   PublicClient (src/src/public.rs) : token resolution in front of every *)
(*                                      authenticated request.             *)
(*                                                                         *)
(* Several calls may be in flight on one PublicClient (its async methods   *)
(* take &self and share Rc<RefCell<Creds>>).  Each action below is one     *)
(* poll of a call's future: everything the code does between two points    *)
(* at which the future can be suspended.  Time is counted in minutes.      *)
(***************************************************************************)
EXTENDS Integers, Sequences, FiniteSets, TLC

(* ----------------------------- bounds --------------------------------- *)

\* number of calls that can be in flight on the one PublicClient
NumCalls == 2
\* the clock is read at minutes 0..MaxEarly (just after start) ...
MaxEarly == 1
\* ... and at minutes TOKEN_REFRESH - 1 .. TOKEN_REFRESH + MaxLate
MaxLate == 1
\* number of tokens the token endpoint issues in one run
MaxTokens == 2
\* length of the account list the accounts endpoint returns
MaxAccounts == 3
\* blanks between two parts of an option name
MaxGap == 2
\* quotes in the calls and in the puts of an option chain
MaxQuotes == 2

(* ------------------------ program constants --------------------------- *)

TOKEN_TTL == 60
TOKEN_REFRESH == TOKEN_TTL - 1

(* ------------------------------ values -------------------------------- *)

Calls == 1..NumCalls

\* Option<T>: None is the empty tuple, Some(x) the one-element tuple
None == << >>
Some(x) == << x >>
IsSome(o) == o # None
Unwrap(o) == o[1]

\* the instants at which the clock is read
Instants == (0..MaxEarly) \cup ((TOKEN_REFRESH - 1)..(TOKEN_REFRESH + MaxLate))

\* content of <home>/.public/creds.json
NoFile == [kind |-> "missing", token |-> 0, token_ttl |-> 0]
BadFile == [kind |-> "corrupt", token |-> 0, token_ttl |-> 0]
JsonFile(d) == [kind |-> "json", token |-> d.token, token_ttl |-> d.token_ttl]

\* outcomes of save_creds_to_file: everything written; open fails; write fails;
\* write returns Ok(n) with n below the length of the JSON (the count is discarded)
SaveOutcomes == {"ok", "open_err", "write_err", "short_write"}

\* the long-lived secret the vault holds under BW_SECRET_NAME
Secrets == {"secret"}

\* what the vault can answer: is ~/.bw.json readable, does the login succeed, does
\* listing the secrets succeed, is the key in the list, does the fetch succeed.
\* Everything works, or one of the five steps fails.
VaultWorks(s) ==
    [config |-> TRUE, login |-> TRUE, list |-> TRUE, key |-> TRUE, get |-> TRUE,
     secret |-> s]
VaultOutcomes ==
    UNION {{VaultWorks(s),
            [VaultWorks(s) EXCEPT !.config = FALSE],
            [VaultWorks(s) EXCEPT !.login = FALSE],
            [VaultWorks(s) EXCEPT !.list = FALSE],
            [VaultWorks(s) EXCEPT !.key = FALSE],
            [VaultWorks(s) EXCEPT !.get = FALSE]} : s \in Secrets}

\* what an HTTP endpoint can answer: is there a response at all and, when there
\* is one, is its status 2xx and does its body decode as the expected schema (for
\* a non-2xx response: as ServiceErrorMsg)
Responses ==
    {[transport |-> FALSE, success |-> FALSE, json |-> FALSE]}
        \cup [transport : {TRUE}, success : BOOLEAN, json : BOOLEAN]

\* the PublicError variants a failing HTTP exchange ends with
ExchangeFailures == {"HttpError", "ServiceError"}
BusinessOutcomes == {"ok", "HttpError", "ServiceError"}

VARIABLES
    now,          \* Utc::now(), in minutes
    data,         \* Creds.data : Option<CredsData>
    file,         \* the persisted creds file
    readers,      \* calls holding a Ref (shared borrow) of the RefCell<Creds>
    pc,           \* where each call's future is suspended
    cached,       \* per call: what Creds::access_token returned to it
    reqTtl,       \* per call: validityInMinutes of its token-exchange request
    resp,         \* per call: the accessToken of the exchange response
    sent,         \* per call: the bearer token in the Authorization header of the
                  \* request it has in flight (None: no such header)
    result,       \* per call: how its last call ended
    trace,        \* per call: the events of the call, in order
    issued,       \* token endpoint: issued[k] = when token k was issued, for how long
    refreshedAt,  \* instant of the last Creds::refresh of this process
    refreshLog,   \* tokens passed to Creds::refresh by this process, in order
    reqSecret,    \* per call: the secret it holds for its token-exchange request
    saveFailed,   \* did save_creds_to_file of the last Creds::refresh return Err
    boot,         \* how this process came up: "first", or restarted after the last
                  \* save_creds_to_file returned Err ("lost") or not ("saved")
    account_id,   \* PublicClient.account_id : Option<String>
    last,         \* the API method that returned last: its inputs and its result
    ran           \* the function of the options tools that ran: input and output

vars == << now, data, file, readers, pc, cached, reqTtl, resp, sent, result, trace,
           issued, refreshedAt, refreshLog, reqSecret, saveFailed, boot, account_id,
           last, ran >>

\* the token store, the calls resolving a token and the token endpoint
tokenVars == << now, data, file, readers, pc, cached, reqTtl, resp, sent, result, trace,
                issued, refreshedAt, refreshLog, reqSecret, saveFailed, boot >>

\* the account of the client and the API method that returned last
apiVars == << account_id, last >>

(* ------------------------------- Creds -------------------------------- *)

Mut_load_corrupt_as_default(f) ==
    IF f.kind = "json" THEN Some([token |-> f.token, token_ttl |-> f.token_ttl])
    ELSE IF f.kind = "corrupt" THEN Some([token |-> 0, token_ttl |-> TOKEN_TTL])
    ELSE None

\* Creds::load_creds_from_file: read_to_string, then serde_json::from_str
Creds_load_creds_from_file(f) ==
    IF f.kind = "json" THEN Some([token |-> f.token, token_ttl |-> f.token_ttl])
    ELSE None

Mut_new_extends_validity(f) ==
    IF f.kind = "json"
      THEN Some([token |-> f.token, token_ttl |-> f.token_ttl + TOKEN_REFRESH])
      ELSE None

\* Creds::new: data: None, replaced only when the load succeeds
Creds_new(f) == Creds_load_creds_from_file(f)

Mut_access_token_inclusive(d, t) ==
    IF IsSome(d) /\ t <= Unwrap(d).token_ttl THEN Some(Unwrap(d).token) ELSE None

\* Creds::access_token: Some(token) iff now.cmp(&token_ttl) == Ordering::Less
Creds_access_token(d, t) ==
    IF IsSome(d) /\ t < Unwrap(d).token_ttl THEN Some(Unwrap(d).token) ELSE None

Mut_access_token_evicts(d, t) ==
    IF IsSome(d) /\ t >= Unwrap(d).token_ttl THEN None ELSE d

\* Creds::access_token takes &self: the entry is as it was, expired or not
Creds_data_after_access_token(d, t) == d

Mut_ttl_is_refresh_window == TOKEN_REFRESH

\* Creds::ttl
Creds_ttl == TOKEN_TTL

Mut_refresh_no_margin(d, token, t) ==
    Some([token |-> token, token_ttl |-> t + TOKEN_TTL])

Mut_refresh_wide_margin(d, token, t) ==
    Some([token |-> token, token_ttl |-> t + TOKEN_REFRESH - 1])

Mut_refresh_keep_first(d, token, t) ==
    IF IsSome(d) THEN d ELSE Some([token |-> token, token_ttl |-> t + TOKEN_REFRESH])

Mut_refresh_keep_token(d, token, t) ==
    IF IsSome(d) THEN Some([token |-> Unwrap(d).token, token_ttl |-> t + TOKEN_REFRESH])
    ELSE Some([token |-> token, token_ttl |-> t + TOKEN_REFRESH])

\* Creds::refresh, the in-memory part: self.data = Some(CredsData {token, now + 59 min})
Creds_refresh(d, token, t) ==
    Some([token |-> token, token_ttl |-> t + TOKEN_REFRESH])

Mut_save_creds_always_lands(d, f, outcome) ==
    IF ~IsSome(d) THEN f ELSE JsonFile(Unwrap(d))

\* Creds::save_creds_to_file: nothing to save without data; otherwise open with
\* truncate+create and one write of the JSON.  A failing open leaves the file as it
\* was, a failing write leaves it truncated (empty), a short write leaves a proper
\* prefix of the JSON, which is not JSON.
Creds_save_creds_to_file(d, f, outcome) ==
    IF ~IsSome(d) THEN f
    ELSE IF outcome = "ok" THEN JsonFile(Unwrap(d))
    ELSE IF outcome = "open_err" THEN f
    ELSE BadFile

Mut_refresh_rolls_back(newData, oldData, outcome) ==
    IF outcome = "ok" THEN newData ELSE oldData

\* Creds::refresh, `if let Err(e) = self.save_creds_to_file() { error!(..) }`: a
\* failed save is logged, the new entry stays
Creds_data_after_save(newData, oldData, outcome) == newData

\* did save_creds_to_file return Err: `?` on open and on write; Ok(n) of a short
\* write is bound to `_` and Ok(()) returned
SaveFailed(outcome) == outcome \in {"open_err", "write_err"}

(* ------------------------------- vault -------------------------------- *)

\* Result<T>: Err is None, Ok(x) is Some(x)

\* Bitwarden::new: load_bw_creds_from_file()?, then login_access_token(..).await?
Bitwarden_new(v) == IF v.config /\ v.login THEN Some("client") ELSE None

Mut_get_secret_absent_key_ok(v) ==
    IF ~v.list THEN None
    ELSE IF ~v.get THEN None
    ELSE Some(v.secret)

\* Bitwarden::get_secret: list_secrets().await?, bail! when the key is not in the
\* list, secrets().get(..).await?
Bitwarden_get_secret(v) ==
    IF ~v.list THEN None
    ELSE IF ~v.key THEN None
    ELSE IF ~v.get THEN None
    ELSE Some(v.secret)

\* Creds::public_secret: Bitwarden::new().await?, then get_secret(BW_SECRET_NAME).await?
Creds_public_secret(v) ==
    IF Bitwarden_new(v) = None THEN None ELSE Bitwarden_get_secret(v)

(* --------------------------- token endpoint --------------------------- *)

\* the issuing server accepts token k until issuance + requested validity
ServerAccepts(k, t) ==
    /\ k \in 1..Len(issued)
    /\ t < issued[k].at + issued[k].validity

(* ---------------------------- PublicClient ---------------------------- *)

Mut_handle_response_ignores_status(r) ==
    IF ~r.transport THEN "HttpError" ELSE "ok"

\* handle_response: HttpError without a response, ServiceError for a non-2xx
\* status (whether or not its body decodes), the response itself otherwise
handle_response(r) ==
    IF ~r.transport THEN "HttpError"
    ELSE IF ~r.success THEN "ServiceError"
    ELSE "ok"

\* response!: the 2xx body decoded as the expected schema, or ServiceError
response_macro(r) == IF r.json THEN "ok" ELSE "ServiceError"

\* create_personal_token after the send: handle_response(response).await?, then
\* response!(PersonalTokenResponse, response)
create_personal_token(r) ==
    IF handle_response(r) # "ok" THEN handle_response(r) ELSE response_macro(r)

Mut_retry_on_error(step) == step

\* the `?` after an await: the Err is returned to the caller of get / post, whose
\* future is then finished; the failed step is not entered again
Propagate(step) == "idle"

\* the events of a call after a step failed
TraceAfterErr(tr, step) == IF Propagate(step) = "idle" THEN << >> ELSE Append(tr, step)

Mut_secret_retained(s) == s

\* public_secret is moved into create_personal_token and dropped when it returns
SecretAfterExchange(s) == None

Mut_exchange_sends_stored(d) == IF IsSome(d) THEN Some(Unwrap(d).token) ELSE None

\* create_personal_token: self.client.post(uri).json(&payload) has no
\* Authorization header and the store is not read for a token
ExchangeAuthorization(d) == None

Mut_never_use_cached(c) == FALSE

\* PublicClient::access_token, `if let Some(token) = ...access_token()`: the cached
\* token is returned and nothing else is done
UseCached(c) == IsSome(c)

Mut_failure_invalidates(d, o) == IF o = "ok" THEN d ELSE None

\* PublicClient::get / post after the send: handle_response(response).await maps
\* the outcome o to Ok or Err and neither touches self.creds
Creds_data_after_response(d, o) == d

\* RefCell::borrow_mut succeeds only when no Ref is alive
CanBorrowMut(rs) == rs = {}

(* ----------------------------- API methods ---------------------------- *)

\* Result<T, PublicError>
PublicError(kind, code, message) == [kind |-> kind, code |-> code, message |-> message]
NoError == PublicError("", "", << >>)
Ok(v) == [ok |-> TRUE, value |-> v, err |-> NoError]
Err(e) == [ok |-> FALSE, value |-> << >>, err |-> e]

\* the PublicError variants; a message is the sequence of the pieces format! joins
MissingCredentials == PublicError("MissingCredentials", "", << >>)
MissingAccountId == PublicError("MissingAccountId", "", << >>)
AccountTypeNotFound == PublicError("AccountTypeNotFound", "", << >>)
HttpError(description) == PublicError("HttpError", "", << description >>)
ServiceError(code, message) == PublicError("ServiceError", code, message)

\* Account, as far as set_account reads it
AccountTypes == {"BROKERAGE", "IRA"}
AccountIds == {"a1", "a2"}
Accounts == [account_id : AccountIds, account_type : AccountTypes]

\* AccountsResponse.accounts
AccountLists == UNION {[1..n -> Accounts] : n \in 0..MaxAccounts}

\* ServiceErrorMsg
ErrorMsgs ==
    {[error |-> "Unauthorized", message |-> "token rejected"],
     [error |-> "NotFound", message |-> "no such account"]}

\* the text of a serde / reqwest decoding error, and of a reqwest transport error
DecodeErrors == {"EOF while parsing a value", "missing field"}
TransportErrors == {"connection refused", "operation timed out"}

\* A response body: does it decode as the schema the method expects (accounts is
\* then the decoded list, for get_accounts), why not when it does not, and the
\* ServiceErrorMsg it decodes as, if it does.  serde ignores unknown fields, so a
\* body can decode as both.
Bodies(payloads) ==
    {[decodes |-> TRUE, accounts |-> p, why |-> "", errmsg |-> None] : p \in payloads}
    \cup {[decodes |-> TRUE, accounts |-> << >>, why |-> "", errmsg |-> Some(m)] :
             m \in ErrorMsgs}
    \cup {[decodes |-> FALSE, accounts |-> << >>, why |-> w, errmsg |-> e] :
             w \in DecodeErrors, e \in {None} \cup {Some(m) : m \in ErrorMsgs}}

NoBody == [decodes |-> FALSE, accounts |-> << >>, why |-> "", errmsg |-> None]

\* Result<Response, reqwest::Error> of send().await: no response and the error's
\* description, or a response with its status class and body
NoResponse(description) ==
    [transport |-> FALSE, description |-> description, success |-> FALSE, body |-> NoBody]
HttpResults(payloads) ==
    {NoResponse(d) : d \in TransportErrors}
    \cup {[transport |-> TRUE, description |-> "", success |-> s, body |-> b] :
             s \in BOOLEAN, b \in Bodies(payloads)}

\* no request was sent
NotSent == NoResponse("")

\* What PublicClient::access_token meets (its steps are the actions Start ..
\* ExchangeReturn): a valid cached token (hit); else whether the vault yields the
\* secret and, when it does, the answer x to the token-exchange request
ResolutionInputs ==
    {[hit |-> TRUE, vault |-> TRUE, x |-> NotSent],
     [hit |-> FALSE, vault |-> FALSE, x |-> NotSent]}
    \cup {[hit |-> FALSE, vault |-> TRUE, x |-> x] : x \in HttpResults({<< >>})}

Mut_handle_response_malformed_as_http(h) ==
    IF ~h.transport THEN Err(HttpError(h.description))
    ELSE IF ~h.success THEN
        IF IsSome(h.body.errmsg)
          THEN Err(ServiceError(Unwrap(h.body.errmsg).error,
                                << Unwrap(h.body.errmsg).message >>))
          ELSE Err(HttpError(h.body.why))
    ELSE Ok(<< >>)

Mut_handle_response_transport_as_service(h) ==
    IF ~h.transport THEN Err(ServiceError("HttpError", << h.description >>))
    ELSE IF ~h.success THEN
        IF IsSome(h.body.errmsg)
          THEN Err(ServiceError(Unwrap(h.body.errmsg).error,
                                << Unwrap(h.body.errmsg).message >>))
          ELSE Err(ServiceError("MalformedJsonErrorResponse",
                                << "Couldnt parse server error json response" >>))
    ELSE Ok(<< >>)

Mut_handle_response_decode_first(h) ==
    IF ~h.transport THEN Err(HttpError(h.description))
    ELSE IF h.body.decodes THEN Ok(<< >>)
    ELSE IF ~h.success THEN
        IF IsSome(h.body.errmsg)
          THEN Err(ServiceError(Unwrap(h.body.errmsg).error,
                                << Unwrap(h.body.errmsg).message >>))
          ELSE Err(ServiceError("MalformedJsonErrorResponse",
                                << "Couldnt parse server error json response" >>))
    ELSE Ok(<< >>)

\* handle_response, with the PublicError it builds: HttpError(e.to_string())
\* without a response; for a non-2xx status ServiceError(msg.error, msg.message)
\* when the body decodes as ServiceErrorMsg and the fixed MalformedJsonErrorResponse
\* error when it does not; Ok(response) otherwise
handle_response_result(h) ==
    IF ~h.transport THEN Err(HttpError(h.description))
    ELSE IF ~h.success THEN
        IF IsSome(h.body.errmsg)
          THEN Err(ServiceError(Unwrap(h.body.errmsg).error,
                                << Unwrap(h.body.errmsg).message >>))
          ELSE Err(ServiceError("MalformedJsonErrorResponse",
                                << "Couldnt parse server error json response" >>))
    ELSE Ok(<< >>)

Mut_response_macro_drops_error_text(h) ==
    IF h.body.decodes THEN Ok(h.body.accounts)
    ELSE Err(ServiceError("MalformedJsonErrorResponse",
                          << "Couldnt parse server error json response" >>))

\* response!, with the PublicError it builds: the decoded data, or
\* ServiceError("MalformedJsonResponse", format!("Couldnt parse json response: {e}"))
response_macro_result(h) ==
    IF h.body.decodes THEN Ok(h.body.accounts)
    ELSE Err(ServiceError("MalformedJsonResponse",
                          << "Couldnt parse json response: ", h.body.why >>))

\* create_personal_token, with the PublicError it builds: the exchange request,
\* handle_response(..)?, response!(PersonalTokenResponse, ..), Ok(data.access_token)
\* (which token it is plays no part here)
create_personal_token_result(x) ==
    IF ~handle_response_result(x).ok THEN handle_response_result(x)
    ELSE IF ~response_macro_result(x).ok THEN response_macro_result(x)
    ELSE Ok(<< "token" >>)

\* PublicClient::access_token, as a function of what it meets: the cached token,
\* MissingCredentials when the vault fetch fails, else what create_personal_token
\* returns
access_token_result(r) ==
    IF r.hit THEN Ok(<< "token" >>)
    ELSE IF ~r.vault THEN Err(MissingCredentials)
    ELSE create_personal_token_result(r.x)

\* PublicClient::get: `self.access_token().await?` while the request is built,
\* then send and handle_response
get(r, h) ==
    IF ~access_token_result(r).ok THEN Err(access_token_result(r).err)
    ELSE handle_response_result(h)

\* PublicClient::post: as get, with the payload as JSON body
post(r, h) ==
    IF ~access_token_result(r).ok THEN Err(access_token_result(r).err)
    ELSE handle_response_result(h)

Mut_account_id_not_required(a) == Ok(IF IsSome(a) THEN a ELSE Some(""))

\* account_id!: the resolved account id, or return Err(MissingAccountId)
account_id_macro(a) == IF IsSome(a) THEN Ok(a) ELSE Err(MissingAccountId)

\* get_accounts: get(..).await?, then response!(AccountsResponse, res)
get_accounts(r, h) ==
    IF ~get(r, h).ok THEN get(r, h) ELSE response_macro_result(h)

Mut_request_before_account_check(a) == TRUE

\* an account-scoped method gets to self.get / self.post, and so to token
\* resolution, only when account_id! before it did not return
ReachesRequest(a) == account_id_macro(a).ok

\* get_quotes: account_id!, post(..).await?, response!(QuotesResponse, res)
get_quotes(a, r, h) ==
    IF ~account_id_macro(a).ok THEN Err(account_id_macro(a).err)
    ELSE IF ~post(r, h).ok THEN post(r, h)
    ELSE response_macro_result(h)

\* get_option_expirations: account_id!, post(..).await?,
\* response!(GetOptionExpirationsResponse, res)
get_option_expirations(a, r, h) ==
    IF ~account_id_macro(a).ok THEN Err(account_id_macro(a).err)
    ELSE IF ~post(r, h).ok THEN post(r, h)
    ELSE response_macro_result(h)

\* get_option_chain: account_id!, post(..).await?, response!(OptionChain, res)
get_option_chain(a, r, h) ==
    IF ~account_id_macro(a).ok THEN Err(account_id_macro(a).err)
    ELSE IF ~post(r, h).ok THEN post(r, h)
    ELSE response_macro_result(h)

\* get_option_greeks: account_id!, get(..).await?, response!(OptionGreeks, res)
get_option_greeks(a, r, h) ==
    IF ~account_id_macro(a).ok THEN Err(account_id_macro(a).err)
    ELSE IF ~get(r, h).ok THEN get(r, h)
    ELSE response_macro_result(h)

\* Iterator::last over accounts.iter().filter(..).map(..): the items are taken
\* front to back and the latest one is kept
RECURSIVE filter_map_last(_, _, _)
filter_map_last(accounts, account_type, kept) ==
    IF accounts = << >> THEN kept
    ELSE filter_map_last(Tail(accounts), account_type,
                         IF Head(accounts).account_type = account_type
                           THEN Some(Head(accounts).account_id)
                           ELSE kept)

RECURSIVE Mut_select_first(_, _)
Mut_select_first(accounts, account_type) ==
    IF accounts = << >> THEN None
    ELSE IF Head(accounts).account_type = account_type
           THEN Some(Head(accounts).account_id)
           ELSE Mut_select_first(Tail(accounts), account_type)

Mut_select_last_of_any_type(accounts, account_type) ==
    IF accounts = << >> THEN None ELSE Some(accounts[Len(accounts)].account_id)

\* set_account, the selection: the account_id of the last entry of the list whose
\* account_type is the requested one
set_account_select(accounts, account_type) ==
    filter_map_last(accounts, account_type, None)

Mut_set_account_clears_on_failure(a, account_type, r, h) ==
    IF ~get_accounts(r, h).ok
      THEN [result |-> Err(get_accounts(r, h).err), account_id |-> None]
    ELSE IF IsSome(set_account_select(get_accounts(r, h).value, account_type))
      THEN [result |-> Ok(<< >>),
            account_id |-> set_account_select(get_accounts(r, h).value, account_type)]
    ELSE [result |-> Err(AccountTypeNotFound), account_id |-> None]

\* set_account: get_accounts().await?, the selection, AccountTypeNotFound without
\* a match, else self.account_id = Some(account_id).  Gives what it returns and
\* the account id of the client afterwards.
set_account(a, account_type, r, h) ==
    IF ~get_accounts(r, h).ok
      THEN [result |-> Err(get_accounts(r, h).err), account_id |-> a]
    ELSE IF IsSome(set_account_select(get_accounts(r, h).value, account_type))
      THEN [result |-> Ok(<< >>),
            account_id |-> set_account_select(get_accounts(r, h).value, account_type)]
    ELSE [result |-> Err(AccountTypeNotFound), account_id |-> a]

\* the answers a business request can get: none when no token was resolved (the
\* request is not sent)
Answers(r, payloads) ==
    IF access_token_result(r).ok THEN HttpResults(payloads) ELSE {NotSent}

\* The record of a returned API method: the method, the account type asked for
\* (set_account), the account id the client had, whether the method got as far
\* as resolving a token, the answer x to its token-exchange request, what the
\* resolution gave, the answer h to the business request, and what the method
\* returned.
Returned(op, wanted, had, resolved, r, h, ret) ==
    [op |-> op, wanted |-> wanted, had |-> had, resolved |-> resolved,
     x |-> IF resolved /\ ~r.hit /\ r.vault THEN r.x ELSE NotSent,
     tok |-> IF resolved THEN access_token_result(r) ELSE Err(NoError),
     h |-> IF resolved /\ access_token_result(r).ok THEN h ELSE NotSent,
     result |-> ret]

\* no API method has returned yet
NoCall ==
    [op |-> "none", wanted |-> "", had |-> None, resolved |-> FALSE, x |-> NotSent,
     tok |-> Err(NoError), h |-> NotSent, result |-> Err(NoError)]

\* the methods that need the account id in their path
AccountScoped ==
    {"get_quotes", "get_option_expirations", "get_option_chain", "get_option_greeks"}

(* ------------------------------ options ------------------------------- *)

\* A &str is the sequence of its characters.
Digits == << "0", "1", "2", "3", "4", "5", "6", "7", "8", "9" >>
IsDigit(ch) == \E i \in 1..10 : Digits[i] = ch
DigitOf(ch) == (CHOOSE i \in 1..10 : Digits[i] = ch) - 1
AllDigits(s) == s # << >> /\ \A i \in 1..Len(s) : IsDigit(s[i])

\* the digits of s read as a decimal number, most significant first
RECURSIVE parse_u(_, _)
parse_u(s, acc) ==
    IF s = << >> THEN acc ELSE parse_u(Tail(s), 10 * acc + DigitOf(Head(s)))

\* str::split_whitespace: the maximal runs of non-whitespace characters, in order
RECURSIVE split_whitespace(_, _, _)
split_whitespace(s, word, tokens) ==
    IF s = << >>
      THEN IF word = << >> THEN tokens ELSE Append(tokens, word)
    ELSE IF Head(s) = " "
      THEN split_whitespace(Tail(s), << >>,
                            IF word = << >> THEN tokens ELSE Append(tokens, word))
    ELSE split_whitespace(Tail(s), Append(word, Head(s)), tokens)

Mut_split_at_keeps_first(token) == token

\* tokens[1].split_at(1).1: the token without its first character
split_at_1(token) == SubSeq(token, 2, Len(token))

\* A decimal number mantissa / 10^decimals without trailing zeros in its fraction.
RECURSIVE Decimal(_, _)
Decimal(mantissa, decimals) ==
    IF decimals > 0 /\ mantissa % 10 = 0
      THEN Decimal(mantissa \div 10, decimals - 1)
      ELSE [mantissa |-> mantissa, decimals |-> decimals]

\* str::parse::<f32> on digits with an optional fraction; None (Err) for what is
\* no number: an empty string, a '$', a second '.'
parse_f32(s) ==
    LET dots == {i \in 1..Len(s) : s[i] = "."}
        dot == IF dots = {} THEN Len(s) + 1 ELSE CHOOSE i \in dots : TRUE
        int == SubSeq(s, 1, dot - 1)
        frac == SubSeq(s, dot + 1, Len(s))
    IN IF /\ Cardinality(dots) <= 1
          /\ int \o frac # << >>
          /\ \A i \in 1..Len(int \o frac) : IsDigit((int \o frac)[i])
         THEN Some(Decimal(parse_u(int \o frac, 0), Len(frac)))
         ELSE None

\* <OptionType as FromStr>::from_str, as the name format and the test fix it:
\* "Put" is PUT, "Call" is CALL, anything else is Err
OptionType_from_str(s) ==
    IF s = << "P", "u", "t" >> THEN Some("PUT")
    ELSE IF s = << "C", "a", "l", "l" >> THEN Some("CALL")
    ELSE None

\* the month names %b reads
ShortMonths ==
    << << "J", "a", "n" >>, << "F", "e", "b" >>, << "M", "a", "r" >>,
       << "A", "p", "r" >>, << "M", "a", "y" >>, << "J", "u", "n" >>,
       << "J", "u", "l" >>, << "A", "u", "g" >>, << "S", "e", "p" >>,
       << "O", "c", "t" >>, << "N", "o", "v" >>, << "D", "e", "c" >> >>

\* NaiveDate::from_ymd_opt: the days the month has in that year
DaysInMonth(year, month) ==
    IF month = 2
      THEN IF year % 4 = 0 /\ (year % 100 # 0 \/ year % 400 = 0) THEN 29 ELSE 28
    ELSE IF month \in {4, 6, 9, 11} THEN 30
    ELSE 31

\* NaiveDate::parse_from_str(s, "%b %d, '%y"): a short month name, a blank, one
\* or two day digits, ", '" and two year digits (read as 20yy for the years at
\* hand); None (Err) for any other text and for a day the month does not have
NaiveDate_parse_from_str(s) ==
    LET commas == {i \in 1..Len(s) : s[i] = ","}
        comma == IF commas = {} THEN Len(s) + 1 ELSE CHOOSE i \in commas : TRUE
        mon == SubSeq(s, 1, 3)
        day == SubSeq(s, 5, comma - 1)
        yy == SubSeq(s, comma + 3, Len(s))
        months == {m \in 1..12 : ShortMonths[m] = mon}
    IN IF /\ Cardinality(commas) = 1
          /\ months # {}
          /\ Len(s) >= 4 /\ s[4] = " "
          /\ AllDigits(day) /\ Len(day) <= 2
          /\ SubSeq(s, comma + 1, comma + 2) = << " ", "'" >>
          /\ AllDigits(yy) /\ Len(yy) = 2
          /\ parse_u(day, 0) \in 1..DaysInMonth(2000 + parse_u(yy, 0),
                                                CHOOSE m \in months : TRUE)
         THEN Some([year |-> 2000 + parse_u(yy, 0),
                    month |-> CHOOSE m \in months : TRUE,
                    day |-> parse_u(day, 0)])
         ELSE None

\* what parse_option_name gives: the tuple, or a panic (an index out of bounds
\* or an unwrap of Err)
Panicked == [panic |-> TRUE, ticker |-> << >>, strike |-> None, op_type |-> None,
             expiration |-> None]

\* parse_option_name: the tokens of the name; the first is the ticker, the second
\* without its first character the strike, the third the option type, and the
\* fourth to sixth, joined by single blanks, the expiration date
parse_option_name(name) ==
    LET tokens == split_whitespace(name, << >>, << >>) IN
    IF Len(tokens) < 6 THEN Panicked
    ELSE LET strike == parse_f32(split_at_1(tokens[2]))
             op_type == OptionType_from_str(tokens[3])
             date_str == tokens[4] \o << " " >> \o tokens[5] \o << " " >> \o tokens[6]
             expiration == NaiveDate_parse_from_str(date_str)
         IN IF strike = None \/ op_type = None \/ expiration = None THEN Panicked
            ELSE [panic |-> FALSE, ticker |-> tokens[1], strike |-> strike,
                  op_type |-> op_type, expiration |-> expiration]

\* Names of options as the portfolio gives them, each part with its meaning.
Tickers == {<< "Q", "C", "O", "M" >>, << "F" >>}
StrikeTexts ==
    {[text |-> << "1", "3", "8" >>, mantissa |-> 138, decimals |-> 0],
     [text |-> << "7", ".", "5", "0" >>, mantissa |-> 75, decimals |-> 1],
     [text |-> << "6", "0" >>, mantissa |-> 60, decimals |-> 0]}
TypeTexts ==
    {[text |-> << "P", "u", "t" >>, op_type |-> "PUT"],
     [text |-> << "C", "a", "l", "l" >>, op_type |-> "CALL"]}
MonthTexts ==
    {[text |-> << "F", "e", "b" >>, month |-> 2],
     [text |-> << "D", "e", "c" >>, month |-> 12]}
DayTexts ==
    {[text |-> << "6" >>, day |-> 6],
     [text |-> << "2", "0" >>, day |-> 20],
     [text |-> << "2", "9" >>, day |-> 29]}
YearTexts ==
    {[text |-> << "2", "6" >>, year |-> 2026],
     [text |-> << "2", "8" >>, year |-> 2028]}

\* n blanks
Gap(n) == [i \in 1..n |-> " "]

\* the name "<TICKER> $<strike> <Put|Call> <Mon> <day>, '<yy>", its parts n blanks
\* apart
OptionName(ticker, strike, type, mon, day, yy, n) ==
    ticker \o Gap(n) \o << "$" >> \o strike.text \o Gap(n) \o type.text \o Gap(n)
        \o mon.text \o Gap(n) \o day.text \o << "," >> \o Gap(n) \o << "'" >> \o yy.text

\* What a JSON body holds under a key: nothing, null, a non-negative integer, a
\* string.
JsonKinds == {"absent", "null", "number", "string"}

\* A quote of an option-chain body, as far as its numeric fields go (the other
\* fields are there and are what Quote expects).
QuoteJsons ==
    [bidSize : JsonKinds, askSize : JsonKinds, openInterest : JsonKinds,
     volume : {"number", "null"}]

\* the lists of quotes a body holds under calls / puts
QuoteLists == {<< >>} \cup {<< q >> : q \in QuoteJsons}

\* an option-chain body; one of its two lists has nothing but usual quotes
ChainJsons ==
    {b \in [baseSymbol : {"string", "absent"}, calls : QuoteLists, puts : QuoteLists] :
        \/ \A i \in 1..Len(b.calls) :
               b.calls[i] = [bidSize |-> "number", askSize |-> "number",
                             openInterest |-> "number", volume |-> "number"]
        \/ b.puts = << >>}

\* serde on a field of type u64: the key must hold a number
decode_u64(k) == k = "number"

Mut_decode_option_rejects_null(k) == k = "number"

\* serde on a field of type Option<u64>: null and a missing key give None, a
\* number gives Some, anything else is an error
decode_option_u64(k) == k \in {"absent", "null", "number"}

\* #[derive(Deserialize)] of Quote: bid_size, ask_size and open_interest are
\* Option<u64>, volume is u64
decode_Quote(q) ==
    /\ decode_option_u64(q.bidSize)
    /\ decode_option_u64(q.askSize)
    /\ decode_option_u64(q.openInterest)
    /\ decode_u64(q.volume)

\* #[derive(Deserialize)] of OptionChain: base_symbol: String, calls and puts:
\* Vec<Quote>
decode_OptionChain(b) ==
    /\ b.baseSymbol = "string"
    /\ \A i \in 1..Len(b.calls) : decode_Quote(b.calls[i])
    /\ \A i \in 1..Len(b.puts) : decode_Quote(b.puts[i])

\* the 2xx response with body b, as response!(OptionChain, res) meets it
ChainResponse(b) ==
    [transport |-> TRUE, description |-> "", success |-> TRUE,
     body |-> [decodes |-> decode_OptionChain(b), accounts |-> << >>,
               why |-> IF decode_OptionChain(b) THEN "" ELSE "missing field",
               errmsg |-> None]]

\* println!: a line of standard output, as its format string and the values
\* that fill it ("" and 0 where the format has no such place)
println(fmt, sym, bid, ask, vol) ==
    [fmt |-> fmt, sym |-> sym, bid |-> bid, ask |-> ask, vol |-> vol]

\* the format string of print_op_quote
QuoteFormat == "{sym}: {bid}/{ask} Volume: {vol}"

\* print_op_quote: one line for the quote q
print_op_quote(q) == println(QuoteFormat, q.instrument.symbol, q.bid, q.ask, q.volume)

\* `for q in quotes { print_op_quote(q); }`: the lines of the quotes, in list order
PrintQuotes(quotes) == [i \in 1..Len(quotes) |-> print_op_quote(quotes[i])]

\* OptionsAnalyze::analyze_option: the chain is fetched, then the greeks of its
\* puts and calls, each with `?`; then the report is printed: the heading,
\* "Puts:" and the quotes of chain.puts, a rule, "Calls:" and again the quotes of
\* chain.puts, a rule.
analyze_option(equity_symbol, chain, greeks_ok) ==
    IF chain = None \/ ~greeks_ok THEN [ok |-> FALSE, printed |-> << >>]
    ELSE [ok |-> TRUE,
          printed |->
              << println("Option Chain for {equity_symbol}:", equity_symbol, "", "", 0),
                 println("Puts:", "", "", "", 0) >>
              \o PrintQuotes(Unwrap(chain).puts)
              \o << println("============{equity_symbol}============", equity_symbol,
                            "", "", 0),
                    println("Calls:", "", "", "", 0) >>
              \o PrintQuotes(Unwrap(chain).puts)
              \o << println("============{equity_symbol}============", equity_symbol,
                            "", "", 0) >>]

\* quotes of calls and of puts of one underlying
CallQuotes ==
    {[instrument |-> [symbol |-> "QCOM260227C00138000"], bid |-> "4.10",
      ask |-> "4.30", volume |-> 12],
     [instrument |-> [symbol |-> "QCOM260227C00140000"], bid |-> "3.05",
      ask |-> "3.20", volume |-> 0]}
PutQuotes ==
    {[instrument |-> [symbol |-> "QCOM260227P00138000"], bid |-> "2.15",
      ask |-> "2.40", volume |-> 7],
     [instrument |-> [symbol |-> "QCOM260227P00136000"], bid |-> "1.50",
      ask |-> "1.65", volume |-> 3]}

\* the lists of at most MaxQuotes quotes of the set qs
QuotesOf(qs) == UNION {[1..n -> qs] : n \in 0..MaxQuotes}

\* the option chains get_option_chain can return
OptionChains ==
    [base_symbol : {"QCOM"}, calls : QuotesOf(CallQuotes), puts : QuotesOf(PutQuotes)]

\* no function of the options tools has run
NoRun == [op |-> "none", input |-> << >>, output |-> << >>]

(* -------------------------------- Init -------------------------------- *)

\* what the persisted file can hold when the process starts: nothing readable,
\* garbage, or the token an earlier run stored (token 0), already expired or about
\* to expire
InitFiles ==
    {NoFile, BadFile} \cup {JsonFile([token |-> 0, token_ttl |-> e]) : e \in 0..1}

\* PublicClient::new: account_id: None, creds: Rc::new(RefCell::new(Creds::new()))
Init ==
    /\ now = 0
    /\ file \in InitFiles
    /\ data = Creds_new(file)
    /\ readers = {}
    /\ pc = [c \in Calls |-> "idle"]
    /\ cached = [c \in Calls |-> None]
    /\ reqTtl = [c \in Calls |-> 0]
    /\ resp = [c \in Calls |-> None]
    /\ sent = [c \in Calls |-> None]
    /\ result = [c \in Calls |-> "none"]
    /\ trace = [c \in Calls |-> << >>]
    /\ issued = << >>
    /\ refreshedAt = None
    /\ refreshLog = << >>
    /\ reqSecret = [c \in Calls |-> None]
    /\ saveFailed = FALSE
    /\ boot = "first"
    /\ account_id = None
    /\ last = NoCall
    /\ ran = NoRun

(* ------------------------------ actions ------------------------------- *)

\* The clock moves on.
Tick ==
    /\ \E t \in Instants : t > now /\ now' = t
    /\ UNCHANGED << data, file, readers, pc, cached, reqTtl, resp, sent, result, trace,
                    issued, refreshedAt, refreshLog, reqSecret, saveFailed, boot >>
    /\ UNCHANGED << apiVars, ran >>

\* PublicClient::get / post up to the first suspension.  access_token() reads the
\* store; on a hit the business request is sent with the cached token, on a miss
\* `self.creds.borrow().public_secret().await` suspends in the vault fetch with the
\* Ref of that statement alive.
Start(c) ==
    /\ pc[c] = "idle"
    /\ LET got == Creds_access_token(data, now) IN
         /\ cached' = [cached EXCEPT ![c] = got]
         /\ data' = Creds_data_after_access_token(data, now)
         /\ IF UseCached(got)
              THEN /\ sent' = [sent EXCEPT ![c] = got]
                   /\ trace' = [trace EXCEPT ![c] = << "request" >>]
                   /\ pc' = [pc EXCEPT ![c] = "request"]
                   /\ UNCHANGED readers
              ELSE /\ readers' = readers \cup {c}
                   /\ trace' = [trace EXCEPT ![c] = << "vault" >>]
                   /\ pc' = [pc EXCEPT ![c] = "vault"]
                   /\ UNCHANGED sent
    /\ result' = [result EXCEPT ![c] = "none"]
    /\ UNCHANGED << now, file, reqTtl, resp, issued, refreshedAt, refreshLog, reqSecret,
                    saveFailed, boot >>
    /\ UNCHANGED << apiVars, ran >>

\* The vault answers.  On Err the call returns MissingCredentials and the Ref is
\* dropped.  On Ok the statement ends (Ref dropped), and the next statement,
\* `self.create_personal_token(public_secret, self.creds.borrow().ttl()).await?`,
\* takes a new Ref for ttl(), posts the exchange request (validityInMinutes and
\* secret in the body, no Authorization header) and suspends with that Ref alive
\* until the statement ends.
VaultReturn(c, v) ==
    /\ pc[c] = "vault"
    /\ IF IsSome(Creds_public_secret(v))
         THEN /\ reqTtl' = [reqTtl EXCEPT ![c] = Creds_ttl]
              /\ reqSecret' = [reqSecret EXCEPT ![c] = Creds_public_secret(v)]
              /\ sent' = [sent EXCEPT ![c] = ExchangeAuthorization(data)]
              /\ trace' = [trace EXCEPT ![c] = Append(@, "exchange")]
              /\ pc' = [pc EXCEPT ![c] = "exchange"]
              /\ UNCHANGED << readers, result >>
         ELSE /\ readers' = readers \ {c}
              /\ result' = [result EXCEPT ![c] = "MissingCredentials"]
              /\ trace' = [trace EXCEPT ![c] = TraceAfterErr(@, "vault")]
              /\ pc' = [pc EXCEPT ![c] = Propagate("vault")]
              /\ UNCHANGED << reqTtl, reqSecret, sent >>
    /\ UNCHANGED << now, data, file, cached, resp, issued, refreshedAt, refreshLog,
                    saveFailed, boot >>
    /\ UNCHANGED << apiVars, ran >>

\* The token endpoint handles the exchange request: it issues a fresh token, valid
\* for the requested validityInMinutes from this instant, and its answer r is one
\* that create_personal_token takes as Ok.
ServerIssue(c, r) ==
    /\ pc[c] = "exchange"
    /\ create_personal_token(r) = "ok"
    /\ Len(issued) < MaxTokens
    /\ issued' = Append(issued, [at |-> now, validity |-> reqTtl[c]])
    /\ resp' = [resp EXCEPT ![c] = Some(Len(issued) + 1)]
    /\ pc' = [pc EXCEPT ![c] = "exchange_resp"]
    /\ UNCHANGED << now, data, file, readers, cached, reqTtl, sent, result, trace,
                    refreshedAt, refreshLog, reqSecret, saveFailed, boot >>
    /\ UNCHANGED << apiVars, ran >>

\* The exchange fails (no response, non-2xx, undecodable body): handle_response /
\* response! return the error, `?` propagates it, the Ref and the secret are dropped.
ExchangeFail(c, r) ==
    /\ pc[c] = "exchange"
    /\ create_personal_token(r) # "ok"
    /\ readers' = readers \ {c}
    /\ result' = [result EXCEPT ![c] = create_personal_token(r)]
    /\ reqTtl' = [reqTtl EXCEPT ![c] = 0]
    /\ reqSecret' = [reqSecret EXCEPT ![c] = SecretAfterExchange(@)]
    /\ trace' = [trace EXCEPT ![c] = TraceAfterErr(@, "exchange")]
    /\ pc' = [pc EXCEPT ![c] = Propagate("exchange")]
    /\ UNCHANGED << now, data, file, cached, resp, sent, issued, refreshedAt, refreshLog,
                    saveFailed, boot >>
    /\ UNCHANGED << apiVars, ran >>

\* The exchange response arrives and decodes.  The statement ends (Ref and secret
\* dropped) and `self.creds.borrow_mut().refresh(..)` runs: borrow_mut panics when
\* another call still holds a Ref; otherwise refresh overwrites the entry, saves it
\* (best effort) and the business request is sent with the new token.
ExchangeReturn(c, o) ==
    /\ pc[c] = "exchange_resp"
    /\ readers' = readers \ {c}
    /\ reqSecret' = [reqSecret EXCEPT ![c] = SecretAfterExchange(@)]
    /\ IF CanBorrowMut(readers \ {c})
         THEN /\ LET fresh == Creds_refresh(data, Unwrap(resp[c]), now) IN
                   /\ data' = Creds_data_after_save(fresh, data, o)
                   /\ file' = Creds_save_creds_to_file(fresh, file, o)
              /\ saveFailed' = SaveFailed(o)
              /\ refreshedAt' = Some(now)
              /\ refreshLog' = Append(refreshLog, Unwrap(resp[c]))
              /\ sent' = [sent EXCEPT ![c] = resp[c]]
              /\ trace' = [trace EXCEPT ![c] = @ \o << "refresh", "request" >>]
              /\ pc' = [pc EXCEPT ![c] = "request"]
              /\ UNCHANGED result
         ELSE /\ o = "ok"
              /\ result' = [result EXCEPT ![c] = "panic"]
              /\ pc' = [pc EXCEPT ![c] = "panicked"]
              /\ UNCHANGED << data, file, saveFailed, refreshedAt, refreshLog, sent, trace >>
    /\ UNCHANGED << now, cached, reqTtl, resp, issued, boot >>
    /\ UNCHANGED << apiVars, ran >>

\* The business request ends: handle_response / response! give the outcome, the
\* call returns it and its future is dropped (the slot is free for the next call).  The
\* server answers 2xx only to a token it accepts (token 0, stored by an earlier
\* run, may or may not still be accepted).
BusinessReturn(c, o) ==
    /\ pc[c] = "request"
    /\ o = "ok" => (Unwrap(sent[c]) = 0 \/ ServerAccepts(Unwrap(sent[c]), now))
    /\ result' = [result EXCEPT ![c] = o]
    /\ cached' = [cached EXCEPT ![c] = None]
    /\ reqTtl' = [reqTtl EXCEPT ![c] = 0]
    /\ resp' = [resp EXCEPT ![c] = None]
    /\ sent' = [sent EXCEPT ![c] = None]
    /\ trace' = [trace EXCEPT ![c] = << >>]
    /\ pc' = [pc EXCEPT ![c] = "idle"]
    /\ data' = Creds_data_after_response(data, o)
    /\ UNCHANGED << now, file, readers, issued, refreshedAt, refreshLog, reqSecret,
                    saveFailed, boot >>
    /\ UNCHANGED << apiVars, ran >>

\* The process ends, whatever its calls were doing, and a new one starts:
\* PublicClient::new builds the store again from the persisted file.  The file and
\* the tokens the server issued are all that is left of the old process.
Restart ==
    /\ data' = Creds_new(file)
    /\ boot' = IF saveFailed THEN "lost" ELSE "saved"
    /\ readers' = {}
    /\ pc' = [c \in Calls |-> "idle"]
    /\ cached' = [c \in Calls |-> None]
    /\ reqTtl' = [c \in Calls |-> 0]
    /\ resp' = [c \in Calls |-> None]
    /\ sent' = [c \in Calls |-> None]
    /\ result' = [c \in Calls |-> "none"]
    /\ trace' = [c \in Calls |-> << >>]
    /\ reqSecret' = [c \in Calls |-> None]
    /\ refreshedAt' = None
    /\ refreshLog' = << >>
    /\ saveFailed' = FALSE
    /\ account_id' = None
    /\ last' = NoCall
    /\ UNCHANGED << now, file, issued, ran >>

\* set_account(account_type), from the call to its return.  It takes &mut self: no
\* other method of the client runs meanwhile.  The caller awaits each method and
\* looks at what it returned before it calls the next one.
SetAccount(account_type, r, h) ==
    /\ last = NoCall
    /\ account_id' = set_account(account_id, account_type, r, h).account_id
    /\ last' = Returned("set_account", account_type, account_id, TRUE, r, h,
                        set_account(account_id, account_type, r, h).result)
    /\ UNCHANGED << tokenVars, ran >>

\* get_accounts(), from the call to its return
GetAccounts(r, h) ==
    /\ last = NoCall
    /\ last' = Returned("get_accounts", "", account_id, TRUE, r, h, get_accounts(r, h))
    /\ UNCHANGED << account_id, tokenVars, ran >>

\* get_quotes(symbols), from the call to its return
GetQuotes(r, h) ==
    /\ last = NoCall
    /\ last' = Returned("get_quotes", "", account_id, ReachesRequest(account_id),
                        r, h, get_quotes(account_id, r, h))
    /\ UNCHANGED << account_id, tokenVars, ran >>

\* get_option_expirations(instrument), from the call to its return
GetOptionExpirations(r, h) ==
    /\ last = NoCall
    /\ last' = Returned("get_option_expirations", "", account_id,
                        ReachesRequest(account_id), r, h,
                        get_option_expirations(account_id, r, h))
    /\ UNCHANGED << account_id, tokenVars, ran >>

\* get_option_chain(instrument, expiration_date), from the call to its return
GetOptionChain(r, h) ==
    /\ last = NoCall
    /\ last' = Returned("get_option_chain", "", account_id,
                        ReachesRequest(account_id), r, h,
                        get_option_chain(account_id, r, h))
    /\ UNCHANGED << account_id, tokenVars, ran >>

\* get_option_greeks(osi_option_symbol), from the call to its return
GetOptionGreeks(r, h) ==
    /\ last = NoCall
    /\ last' = Returned("get_option_greeks", "", account_id,
                        ReachesRequest(account_id), r, h,
                        get_option_greeks(account_id, r, h))
    /\ UNCHANGED << account_id, tokenVars, ran >>

\* The caller has looked at what the method returned and goes on.
Consume ==
    /\ last # NoCall
    /\ last' = NoCall
    /\ UNCHANGED << account_id, tokenVars, ran >>

\* OptionPos::new parses the name of an option position.
ParseOptionName(ticker, strike, type, mon, day, yy, n) ==
    /\ ran.op = "none"
    /\ ran' = [op |-> "parse_option_name",
               input |-> [ticker |-> ticker, strike |-> strike, type |-> type,
                          mon |-> mon, day |-> day, yy |-> yy,
                          name |-> OptionName(ticker, strike, type, mon, day, yy, n)],
               output |-> parse_option_name(
                              OptionName(ticker, strike, type, mon, day, yy, n))]
    /\ UNCHANGED << tokenVars, apiVars >>

\* get_option_chain on a client with an account and a cached token gets a 2xx
\* response with body b.
DecodeOptionChain(b) ==
    /\ ran.op = "none"
    /\ ran' = [op |-> "get_option_chain", input |-> b,
               output |-> get_option_chain(Some("a1"),
                                           [hit |-> TRUE, vault |-> TRUE, x |-> NotSent],
                                           ChainResponse(b))]
    /\ UNCHANGED << tokenVars, apiVars >>

\* analyze_option(equity_symbol, expiration): get_option_chain returns chain
\* (None: an error), get_option_greeks succeeds or not.
AnalyzeOption(chain, greeks_ok) ==
    /\ ran.op = "none"
    /\ ran' = [op |-> "analyze_option",
               input |-> [chain |-> chain, greeks_ok |-> greeks_ok],
               output |-> analyze_option("QCOM", chain, greeks_ok)]
    /\ UNCHANGED << tokenVars, apiVars >>

Next ==
    \/ Tick
    \/ \E c \in Calls : Start(c)
    \/ \E c \in Calls, v \in VaultOutcomes : VaultReturn(c, v)
    \/ \E c \in Calls, r \in Responses : ServerIssue(c, r)
    \/ \E c \in Calls, r \in Responses : ExchangeFail(c, r)
    \/ \E c \in Calls, o \in SaveOutcomes : ExchangeReturn(c, o)
    \/ \E c \in Calls, o \in BusinessOutcomes : BusinessReturn(c, o)

\* one process, its calls in flight together
Spec == Init /\ [][Next]_vars

\* the next external step of call c returns: the vault answers, the token
\* endpoint answers, the exchange response is decoded, the business request ends
CallStep(c) ==
    \/ \E v \in VaultOutcomes : VaultReturn(c, v)
    \/ \E r \in Responses : ServerIssue(c, r)
    \/ \E r \in Responses : ExchangeFail(c, r)
    \/ \E o \in SaveOutcomes : ExchangeReturn(c, o)
    \/ \E o \in BusinessOutcomes : BusinessReturn(c, o)

\* the calls of one process in flight together, each external step of each call
\* returning in the end
SpecFair == Spec /\ \A c \in Calls : WF_vars(CallStep(c))

\* the program as its binaries use it, one call at a time, over process restarts
NextRestart ==
    \/ Tick
    \/ Start(1)
    \/ \E v \in VaultOutcomes : VaultReturn(1, v)
    \/ \E r \in Responses : ServerIssue(1, r)
    \/ \E r \in Responses : ExchangeFail(1, r)
    \/ \E o \in SaveOutcomes : ExchangeReturn(1, o)
    \/ \E o \in BusinessOutcomes : BusinessReturn(1, o)
    \/ Restart

SpecRestart == Init /\ [][NextRestart]_vars

\* the API methods of one client, called one after the other as the binaries do;
\* what token resolution meets and what the server answers are inputs of each call
NextApi ==
    \/ last = NoCall /\ \E ty \in AccountTypes, r \in ResolutionInputs :
          \E h \in Answers(r, AccountLists) : SetAccount(ty, r, h)
    \/ last = NoCall /\ \E r \in ResolutionInputs :
          \E h \in Answers(r, AccountLists) : GetAccounts(r, h)
    \/ last = NoCall /\ \E r \in ResolutionInputs :
          \E h \in Answers(r, {<< >>}) : GetQuotes(r, h)
    \/ last = NoCall /\ \E r \in ResolutionInputs :
          \E h \in Answers(r, {<< >>}) : GetOptionExpirations(r, h)
    \/ last = NoCall /\ \E r \in ResolutionInputs :
          \E h \in Answers(r, {<< >>}) : GetOptionChain(r, h)
    \/ last = NoCall /\ \E r \in ResolutionInputs :
          \E h \in Answers(r, {<< >>}) : GetOptionGreeks(r, h)
    \/ Consume

SpecApi == Init /\ [][NextApi]_vars

\* the functions of the options tools, each applied to one input
NextOptions ==
    \/ \E ticker \in Tickers, strike \in StrikeTexts, type \in TypeTexts,
          mon \in MonthTexts, day \in DayTexts, yy \in YearTexts, n \in 1..MaxGap :
          ParseOptionName(ticker, strike, type, mon, day, yy, n)
    \/ \E b \in ChainJsons : DecodeOptionChain(b)
    \/ \E chain \in {None} \cup {Some(ch) : ch \in OptionChains}, greeks_ok \in BOOLEAN :
          AnalyzeOption(chain, greeks_ok)

SpecOptions == Init /\ [][NextOptions]_vars

(* ------------------------------ helpers ------------------------------- *)

Last(s) == s[Len(s)]
Range(s) == {s[i] : i \in 1..Len(s)}

\* the events of a call that misses the cache and acquires a token, in order
AcquireThenRequest == << "vault", "exchange", "refresh", "request" >>

\* the margin the store keeps below the requested validity, in minutes
Margin == TOKEN_TTL - TOKEN_REFRESH

(* ------------------------------ claims -------------------------------- *)

\* C1: Creds::access_token invoked at instant t on an entry with expiry E returns
\* the token when t < E and None when t >= E.
C1_ExpiryInvariant ==
    [][\A c \in Calls :
         (pc[c] = "idle" /\ pc'[c] # "idle" /\ IsSome(data)) =>
            /\ now < Unwrap(data).token_ttl => cached'[c] = Some(Unwrap(data).token)
            /\ now >= Unwrap(data).token_ttl => cached'[c] = None]_vars

\* a call read the store at or after the expiry of the stored entry and got None
C1_Witness ==
    \E c \in Calls :
        /\ pc[c] = "vault"
        /\ cached[c] = None
        /\ IsSome(data)
        /\ now = Unwrap(data).token_ttl

\* C2 (as claimed): a call that missed the cache and whose vault fetch and token
\* exchange succeeded goes on, once the exchange response is in, to have done vault
\* fetch, exchange, refresh and one business request, in that order, the request
\* carrying the new token.
C2_AcquireOrder ==
    \A c \in Calls :
        (IsSome(resp[c]) /\ pc[c] # "exchange_resp") =>
            /\ trace[c] = AcquireThenRequest
            /\ sent[c] = resp[c]

\* C3 (as claimed): every call that observed an absent token and got its exchange
\* response has executed its own Creds::refresh, whatever the other calls do.
C3_EveryAcquisitionCompletes ==
    \A c \in Calls :
        (cached[c] = None /\ IsSome(resp[c]) /\ pc[c] # "exchange_resp") =>
            Unwrap(resp[c]) \in Range(refreshLog)

\* C4 (as claimed): no call holds a borrow of the credential store while it is
\* suspended in the vault fetch or in the token exchange.
C4_NoBorrowAcrossAwait ==
    \A c \in Calls :
        pc[c] \in {"vault", "exchange", "exchange_resp"} => c \notin readers

C6_RefreshOverwrite ==
    Len(refreshLog) >= 2 =>
        LET t1 == refreshLog[Len(refreshLog) - 1]
            t2 == Last(refreshLog)
            r == Creds_access_token(data, now)
        IN  /\ r \in {None, Some(t2)}
            /\ r # Some(t1)
            /\ now < Unwrap(data).token_ttl => r = Some(t2)

\* after two refreshes a call read the store and got the second token
C6_Witness ==
    /\ Len(refreshLog) >= 2
    /\ \E c \in Calls : pc[c] = "request" /\ cached[c] = Some(Last(refreshLog))

\* C7: a refresh at instant T sets the stored expiry to T + (ttl() - 1) minutes,
\* not to T + ttl().
C7_TtlMargin ==
    IsSome(refreshedAt) =>
        /\ IsSome(data)
        /\ Unwrap(data).token_ttl = Unwrap(refreshedAt) + (Creds_ttl - 1)
        /\ Unwrap(data).token_ttl # Unwrap(refreshedAt) + Creds_ttl

\* a refresh ran at minute 1 and the stored expiry is minute 60
C7_Witness ==
    /\ refreshedAt = Some(1)
    /\ IsSome(data)
    /\ Unwrap(data).token_ttl = 60

\* C8 (as claimed): whenever the store returns a token of this run, the issuing
\* server still accepts it, however long the exchange response took.
C8_ServerStillValid ==
    LET r == Creds_access_token(data, now) IN
        (IsSome(r) /\ Unwrap(r) \in 1..Len(issued)) => ServerAccepts(Unwrap(r), now)

\* C8 (amended): whenever the store returns a token that was refreshed at most
\* Margin (one minute) after the server issued it, the server still accepts it.
C8_ServerStillValidWithinMargin ==
    LET r == Creds_access_token(data, now) IN
        (/\ IsSome(r)
         /\ Unwrap(r) \in 1..Len(issued)
         /\ IsSome(refreshedAt)
         /\ Unwrap(refreshedAt) - issued[Unwrap(r)].at <= Margin) =>
            ServerAccepts(Unwrap(r), now)

\* a call got from the store, in the server's last minute of validity, a token
\* that was refreshed one minute after its issuance
C8_Witness ==
    \E c \in Calls :
        /\ pc[c] = "request"
        /\ IsSome(cached[c])
        /\ cached[c] = Creds_access_token(data, now)
        /\ Unwrap(cached[c]) \in 1..Len(issued)
        /\ IsSome(refreshedAt)
        /\ Unwrap(refreshedAt) - issued[Unwrap(cached[c])].at = Margin
        /\ now + 1 = issued[Unwrap(cached[c])].at + issued[Unwrap(cached[c])].validity

\* C9 (as claimed): a token of this run that the store treats as expired is no
\* longer accepted by the issuing server.
C9_ExpiredInStoreRejectedByServer ==
    (/\ IsSome(data)
     /\ Unwrap(data).token \in 1..Len(issued)
     /\ now >= Unwrap(data).token_ttl) =>
        ~ServerAccepts(Unwrap(data).token, now)

\* C9 (amended): from Margin (one minute) after the stored expiry on, a token of
\* this run is no longer accepted by the issuing server.
C9_ExpiredPastMarginRejectedByServer ==
    (/\ IsSome(data)
     /\ Unwrap(data).token \in 1..Len(issued)
     /\ now >= Unwrap(data).token_ttl + Margin) =>
        ~ServerAccepts(Unwrap(data).token, now)

\* a call found a token of this run expired, one minute or more past its expiry
C9_Witness ==
    \E c \in Calls :
        /\ pc[c] = "vault"
        /\ cached[c] = None
        /\ IsSome(data)
        /\ Unwrap(data).token \in 1..Len(issued)
        /\ now >= Unwrap(data).token_ttl + Margin

\* C10: a call that found an unexpired token in the store sends its business
\* request with that token and does no vault fetch, no exchange and no refresh.
C10_CachedTokenUsed ==
    \A c \in Calls :
        (pc[c] # "idle" /\ IsSome(cached[c])) =>
            /\ trace[c] = << "request" >>
            /\ sent[c] = cached[c]
            /\ resp[c] = None
            /\ c \notin readers

\* a call was served with a cached token of this run
C10_Witness ==
    \E c \in Calls :
        /\ pc[c] = "request"
        /\ IsSome(cached[c])
        /\ trace[c] = << "request" >>
        /\ Unwrap(cached[c]) \in 1..Len(issued)

\* did one of the vault steps of outcome v fail
VaultFails(v) == ~v.config \/ ~v.login \/ ~v.list \/ ~v.key \/ ~v.get

\* C11: when the vault step fails (config unreadable, login fails, key absent from
\* the list, fetch fails) the call ends with MissingCredentials, no token exchange
\* is attempted, no business request is sent and the store and file are unchanged.
C11_VaultFailure ==
    [][\A c \in Calls :
         pc[c] = "vault" =>
            \A v \in VaultOutcomes :
                (VaultFails(v) /\ VaultReturn(c, v)) =>
                    /\ result'[c] = "MissingCredentials"
                    /\ pc'[c] = "idle"
                    /\ reqTtl'[c] = 0 /\ reqSecret'[c] = None
                    /\ issued' = issued
                    /\ sent'[c] = None
                    /\ data' = data /\ file' = file /\ refreshLog' = refreshLog]_vars

\* a call ended with MissingCredentials, nothing issued, nothing refreshed
C11_Witness ==
    \E c \in Calls :
        /\ pc[c] = "idle"
        /\ result[c] = "MissingCredentials"
        /\ issued = << >>
        /\ refreshLog = << >>

\* did the exchange answered by r fail: no response, non-2xx, or a 2xx body that
\* does not decode as PersonalTokenResponse
ExchangeFails(r) == ~r.transport \/ ~r.success \/ ~r.json

\* C12: when the token exchange fails (transport failure, non-2xx, 2xx without a
\* decodable accessToken) the call ends with HttpError or ServiceError, refresh is
\* not called (store and file unchanged), no business request is sent and the
\* exchange is not entered again.
C12_ExchangeFailure ==
    [][\A c \in Calls :
         pc[c] = "exchange" =>
            \A r \in Responses :
                (ExchangeFails(r) /\ (ServerIssue(c, r) \/ ExchangeFail(c, r))) =>
                    /\ result'[c] \in ExchangeFailures
                    /\ ~r.transport => result'[c] = "HttpError"
                    /\ pc'[c] = "idle"
                    /\ sent'[c] = None
                    /\ data' = data /\ file' = file
                    /\ refreshLog' = refreshLog /\ refreshedAt' = refreshedAt]_vars

\* a call ended with the error of its failed exchange; the store is still empty
C12_Witness ==
    \E c \in Calls :
        /\ pc[c] = "idle"
        /\ result[c] \in ExchangeFailures
        /\ cached[c] = None
        /\ data = None
        /\ refreshLog = << >>

\* how many times event e occurs in the events tr of a call
Occurrences(tr, e) == Cardinality({i \in 1..Len(tr) : tr[i] = e})

\* the steps of a call, in the order the code goes through them
StepRank(p) ==
    CASE p = "idle" -> 0
      [] p = "vault" -> 1
      [] p = "exchange" -> 2
      [] p = "exchange_resp" -> 3
      [] p = "request" -> 4
      [] OTHER -> 5

\* C13: a call issues at most one vault fetch, one token exchange and one
\* business request, whatever its outcome; a step that ended is never entered
\* again by the same call.
C13_AtMostOnce ==
    /\ [](\A c \in Calls : \A e \in {"vault", "exchange", "request"} :
              Occurrences(trace[c], e) <= 1)
    /\ [][\A c \in Calls :
            (trace'[c] # trace[c] \/ pc'[c] # pc[c]) =>
                (pc'[c] = "idle" \/ StepRank(pc'[c]) > StepRank(pc[c]))]_vars

\* a call went through vault fetch, exchange, refresh and request, each once
C13_Witness ==
    \E c \in Calls :
        /\ pc[c] = "request"
        /\ trace[c] = AcquireThenRequest
        /\ Len(issued) = 1
        /\ Len(refreshLog) = 1

\* C14 (as claimed): after a refresh(t) whose save_creds_to_file returned Ok, a
\* store built again with Creds::new from the same file returns Some(t) at every
\* instant before t's stored expiry.
C14_PersistenceRoundTrip ==
    [][(Restart /\ IsSome(refreshedAt) /\ ~saveFailed) =>
          \A t \in Instants :
              t < Unwrap(data).token_ttl =>
                  Creds_access_token(data', t) = Some(Unwrap(data).token)]_vars

\* C15: Creds::new against a missing or unreadable file, or one that is not valid
\* creds JSON, gives a store (no error, no panic) whose access_token is None at
\* every instant.
C15_BadFileTolerated ==
    /\ file.kind # "json" => \A t \in Instants : Creds_access_token(data, t) = None
    /\ [][(Restart /\ file.kind # "json") =>
            \A t \in Instants : Creds_access_token(data', t) = None]_vars

\* a process came up on a file left truncated by a failed write, with an empty store
C15_Witness ==
    /\ boot # "first"
    /\ file = BadFile
    /\ data = None
    /\ \A c \in Calls : pc[c] = "idle" /\ result[c] = "none"

\* C16: when save_creds_to_file fails inside refresh(t), refresh still completes:
\* the entry is t with the new expiry, the acquiring call goes on to its request,
\* and access_token returns t until that expiry.
C16_FailedSaveKeepsEntry ==
    /\ [](saveFailed =>
            /\ data = Some([token |-> Last(refreshLog),
                            token_ttl |-> Unwrap(refreshedAt) + TOKEN_REFRESH])
            /\ \A t \in Instants :
                 (Unwrap(refreshedAt) <= t /\ t < Unwrap(refreshedAt) + TOKEN_REFRESH) =>
                     Creds_access_token(data, t) = Some(Last(refreshLog)))
    /\ [][\A c \in Calls :
            (pc[c] = "exchange_resp" /\ pc'[c] # "exchange_resp" /\ saveFailed'
             /\ refreshLog' # refreshLog) =>
                /\ pc'[c] = "request"
                /\ sent'[c] = resp[c]
                /\ result'[c] = result[c]]_vars

\* after a refresh whose save failed, a later call got the token from the store
C16_Witness ==
    /\ saveFailed
    /\ \E c \in Calls :
          /\ pc[c] = "request"
          /\ trace[c] = << "request" >>
          /\ cached[c] = Some(Last(refreshLog))
          /\ file # JsonFile(Unwrap(data))

\* C17: when save_creds_to_file of the last refresh failed, a process restarted
\* from the file has no current token, now or later, and its next call has to
\* acquire one.
C17_TokenLostOnRestart ==
    /\ [][(Restart /\ saveFailed) =>
            \A t \in Instants : t >= now => Creds_access_token(data', t) = None]_vars
    /\ [](\A c \in Calls :
            (boot = "lost" /\ refreshLog = << >> /\ pc[c] # "idle") =>
                /\ cached[c] = None
                /\ trace[c][1] = "vault")

\* a process restarted after a failed save is acquiring a new token
C17_Witness ==
    /\ boot = "lost"
    /\ refreshLog = << >>
    /\ Len(issued) >= 1
    /\ \E c \in Calls : pc[c] = "exchange" /\ cached[c] = None

\* C18: Creds::access_token is read-only: the read of the store at the start of a
\* call changes neither the entry nor the file, and an expired entry stays stored
\* after the read returned None.
C18_AccessTokenReadOnly ==
    [][\A c \in Calls :
         (pc[c] = "idle" /\ pc'[c] # "idle") =>
            /\ data' = data
            /\ file' = file
            /\ (IsSome(data) /\ cached'[c] = None) => IsSome(data')]_vars

\* a call read the store past the expiry of the entry loaded from the file, got
\* None, and the entry is still stored
C18_Witness ==
    \E c \in Calls :
        /\ pc[c] = "vault"
        /\ cached[c] = None
        /\ IsSome(data)
        /\ Unwrap(data).token = 0
        /\ now > Unwrap(data).token_ttl

\* C19: after a refresh at instant T, a call that resolves its token before
\* T + 59 gets the cached token and goes to its request with no vault fetch and
\* no exchange; a call that resolves at or after T + 59 gets None and sends its
\* request only after a vault fetch, an exchange and a refresh of its own.
C19_ReuseThenReacquire ==
    /\ [][\A c \in Calls :
            (pc[c] = "idle" /\ pc'[c] # "idle" /\ IsSome(refreshedAt)) =>
                /\ now < Unwrap(refreshedAt) + TOKEN_REFRESH =>
                     /\ cached'[c] = Some(Last(refreshLog))
                     /\ sent'[c] = Some(Last(refreshLog))
                     /\ pc'[c] = "request"
                     /\ trace'[c] = << "request" >>
                /\ now >= Unwrap(refreshedAt) + TOKEN_REFRESH =>
                     /\ cached'[c] = None
                     /\ pc'[c] = "vault"
                     /\ sent'[c] = None]_vars
    /\ [](\A c \in Calls :
            (pc[c] = "request" /\ cached[c] = None) =>
                /\ trace[c] = AcquireThenRequest
                /\ sent[c] = resp[c]
                /\ Unwrap(resp[c]) \in Range(refreshLog))

\* the token refreshed at minute 0 ran out at minute 59 and the call resolving
\* then acquired a second token before its request
C19_Witness ==
    \E c \in Calls :
        /\ pc[c] = "request"
        /\ cached[c] = None
        /\ trace[c] = AcquireThenRequest
        /\ Len(refreshLog) = 2
        /\ issued[2].at >= issued[1].at + TOKEN_REFRESH

\* C20: the secret is held only from the vault fetch of an acquisition to the end
\* of its exchange, every exchange request carries the secret its own call just
\* fetched, and the file holds a token and an expiry, never the secret.
C20_SecretNotRetained ==
    /\ [](\A c \in Calls :
            /\ IsSome(reqSecret[c]) => pc[c] \in {"exchange", "exchange_resp"}
            /\ pc[c] = "exchange" =>
                 /\ IsSome(reqSecret[c])
                 /\ trace[c] = << "vault", "exchange" >>)
    /\ [](/\ DOMAIN file = {"kind", "token", "token_ttl"}
          /\ file.token \in 0..MaxTokens
          /\ file.token_ttl \in Nat)
    /\ [][\A c \in Calls :
            pc[c] = "vault" =>
                \A v \in VaultOutcomes :
                    (VaultReturn(c, v) /\ pc'[c] = "exchange") =>
                        reqSecret'[c] = Some(v.secret)]_vars

\* an acquisition is over, its token is in the file and its secret is gone
C20_Witness ==
    \E c \in Calls :
        /\ pc[c] = "request"
        /\ trace[c] = AcquireThenRequest
        /\ reqSecret[c] = None
        /\ file.kind = "json"
        /\ Some(file.token) = sent[c]

\* C21: the validityInMinutes of every token-exchange request is the value of
\* Creds::ttl, the constant 60, whatever the store holds; the server issues every
\* token for that validity.
C21_RequestedValidity ==
    /\ \A c \in Calls :
          pc[c] \in {"exchange", "exchange_resp"} =>
              reqTtl[c] = Creds_ttl /\ reqTtl[c] = TOKEN_TTL
    /\ \A k \in 1..Len(issued) : issued[k].validity = TOKEN_TTL

\* an exchange request is in flight while the store holds the expired token of
\* an earlier refresh; it asks for 60 minutes
C21_Witness ==
    \E c \in Calls :
        /\ pc[c] = "exchange"
        /\ reqTtl[c] = TOKEN_TTL
        /\ IsSome(data)
        /\ Len(refreshLog) = 1
        /\ Unwrap(data).token = Last(refreshLog)

\* the answers the returned method got: to its business request and to the
\* token-exchange request of its token resolution
AnswersSeen == {last.h, last.x}

\* C22: a successful set_account stores the account_id of the last entry, in list
\* order, of the fetched account list whose account_type is the requested type.
C22_SetAccountLastMatch ==
    (last.op = "set_account" /\ last.result.ok) =>
        \E i \in 1..Len(last.h.body.accounts) :
            /\ last.h.body.accounts[i].account_type = last.wanted
            /\ \A j \in (i + 1)..Len(last.h.body.accounts) :
                   last.h.body.accounts[j].account_type # last.wanted
            /\ account_id = Some(last.h.body.accounts[i].account_id)

\* two entries of the requested type with different ids, followed by one of
\* another type: the second is stored
C22_Witness ==
    /\ last.op = "set_account" /\ last.result.ok
    /\ Len(last.h.body.accounts) = 3
    /\ last.h.body.accounts[1].account_type = last.wanted
    /\ last.h.body.accounts[2].account_type = last.wanted
    /\ last.h.body.accounts[3].account_type # last.wanted
    /\ last.h.body.accounts[1].account_id # last.h.body.accounts[2].account_id
    /\ account_id = Some(last.h.body.accounts[2].account_id)
    /\ last.had = Some(last.h.body.accounts[1].account_id)

\* C23: set_account returns AccountTypeNotFound exactly when the account list was
\* fetched (token resolved, 2xx response, body decoded) and no entry of it has the
\* requested account_type.
C23_AccountTypeNotFoundIff ==
    last.op = "set_account" =>
        (last.result = Err(AccountTypeNotFound)
            <=> /\ last.tok.ok
                /\ last.h.transport /\ last.h.success /\ last.h.body.decodes
                /\ \A i \in 1..Len(last.h.body.accounts) :
                       last.h.body.accounts[i].account_type # last.wanted)

\* a fetched, non-empty list without the requested type
C23_Witness ==
    /\ last.op = "set_account"
    /\ last.wanted = "BROKERAGE"
    /\ last.result = Err(AccountTypeNotFound)
    /\ Len(last.h.body.accounts) = 2
    /\ \A i \in 1..2 : last.h.body.accounts[i].account_type = "IRA"

\* C24: get_quotes, get_option_expirations, get_option_chain and get_option_greeks
\* called on a client without account id fail with MissingAccountId; get_accounts
\* never fails with MissingAccountId.
C24_MissingAccountId ==
    /\ (last.op \in AccountScoped /\ last.had = None) =>
           last.result = Err(MissingAccountId)
    /\ last.op = "get_accounts" => last.result.err.kind # "MissingAccountId"

\* get_option_greeks on a client that never had set_account succeed
C24_Witness ==
    /\ last.op = "get_option_greeks"
    /\ last.had = None
    /\ ~last.resolved
    /\ last.result = Err(MissingAccountId)

\* C25: a response with a non-2xx status ends the method with ServiceError: with
\* the error and message of the body when the body decodes as {error, message},
\* with the code MalformedJsonErrorResponse and a fixed message, nothing of the
\* body, when it does not.
C25_NonSuccessIsServiceError ==
    \A h \in AnswersSeen :
        (h.transport /\ ~h.success) =>
            /\ last.result.err.kind = "ServiceError"
            /\ IsSome(h.body.errmsg) =>
                   /\ last.result.err.code = Unwrap(h.body.errmsg).error
                   /\ last.result.err.message = << Unwrap(h.body.errmsg).message >>
            /\ ~IsSome(h.body.errmsg) =>
                   /\ last.result.err.code = "MalformedJsonErrorResponse"
                   /\ last.result.err.message =
                          << "Couldnt parse server error json response" >>
                   /\ h.body.why \notin Range(last.result.err.message)

\* a non-2xx answer to get_quotes whose body is no {error, message}
C25_Witness ==
    /\ last.op = "get_quotes"
    /\ last.h.transport /\ ~last.h.success
    /\ last.h.body.errmsg = None
    /\ last.h.body.why = "missing field"
    /\ last.result.err.code = "MalformedJsonErrorResponse"

\* C26: a request that gets no response at all ends the method with HttpError
\* carrying the description of the underlying error, never with ServiceError.
C26_NoResponseIsHttpError ==
    \A h \in AnswersSeen :
        (~h.transport /\ h.description \in TransportErrors) =>
            /\ last.result = Err(HttpError(h.description))
            /\ last.result.err.kind # "ServiceError"

\* the accounts request of set_account times out
C26_Witness ==
    /\ last.op = "set_account"
    /\ last.h = NoResponse("operation timed out")
    /\ last.result.err.kind = "HttpError"
    /\ last.result.err.message = << "operation timed out" >>

\* C27: a 2xx response whose body does not decode as the expected schema ends the
\* method with ServiceError, code MalformedJsonResponse, the text of the decoding
\* error in the message; for the token exchange as for every business request.
C27_MalformedJsonResponse ==
    \A h \in AnswersSeen :
        (h.transport /\ h.success /\ ~h.body.decodes) =>
            /\ last.result.err.kind = "ServiceError"
            /\ last.result.err.code = "MalformedJsonResponse"
            /\ h.body.why \in Range(last.result.err.message)

\* the token exchange of a get_option_chain call is answered 2xx with a body that
\* is no PersonalTokenResponse
C27_Witness ==
    /\ last.op = "get_option_chain"
    /\ IsSome(last.had)
    /\ last.x.transport /\ last.x.success /\ ~last.x.body.decodes
    /\ last.x.body.why = "EOF while parsing a value"
    /\ last.h = NotSent
    /\ last.result.err.code = "MalformedJsonResponse"

\* C28: the status is checked before the body is decoded: a method whose request
\* got a non-2xx response does not return Ok, even when the body decodes as the
\* schema the method expects.
C28_StatusBeforeDecoding ==
    \A h \in AnswersSeen : (h.transport /\ ~h.success) => ~last.result.ok

\* a non-2xx answer to get_accounts whose body is an account list
C28_Witness ==
    /\ last.op = "get_accounts"
    /\ last.h.transport /\ ~last.h.success
    /\ last.h.body.decodes
    /\ Len(last.h.body.accounts) = 2
    /\ ~last.result.ok

\* C29: the Authorization header of a business request carries the token that
\* token resolution produced for the same call (the cached one on a hit, the one
\* of its own exchange on a miss); the token-exchange request carries no
\* Authorization header, whatever token the store holds.
C29_BearerOfOwnResolution ==
    \A c \in Calls :
        /\ pc[c] = "request" =>
             /\ IsSome(sent[c])
             /\ sent[c] = IF IsSome(cached[c]) THEN cached[c] ELSE resp[c]
        /\ pc[c] \in {"exchange", "exchange_resp"} => sent[c] = None

\* two business requests are in flight, one with the token its call found in the
\* store, one with the token its call has just acquired
C29_Witness ==
    \E c1, c2 \in Calls :
        /\ pc[c1] = "request" /\ pc[c2] = "request"
        /\ IsSome(cached[c1]) /\ sent[c1] = cached[c1]
        /\ cached[c2] = None /\ sent[c2] = resp[c2]
        /\ sent[c1] # sent[c2]

\* C30: after construction the entry of the store and the persisted file change
\* only in a step in which a call runs Creds::refresh; reading the store, ttl(),
\* the vault fetch, the exchange and business calls, failed or not, leave them.
C30_OnlyRefreshWrites ==
    [][(data' # data \/ file' # file) =>
          \E c \in Calls :
              /\ pc[c] = "exchange_resp"
              /\ pc'[c] = "request"
              /\ refreshLog' = Append(refreshLog, Unwrap(resp[c]))
              /\ data' = Some([token |-> Unwrap(resp[c]),
                               token_ttl |-> now + TOKEN_REFRESH])]_vars

\* a business call failed while the store held the unexpired token of a refresh;
\* entry and file are as the refresh left them
C30_Witness ==
    /\ Len(refreshLog) = 1
    /\ ~saveFailed
    /\ data = Some([token |-> 1, token_ttl |-> Unwrap(refreshedAt) + TOKEN_REFRESH])
    /\ file = JsonFile(Unwrap(data))
    /\ now < Unwrap(data).token_ttl
    /\ \E c \in Calls : pc[c] = "idle" /\ result[c] \in {"HttpError", "ServiceError"}

\* C31: parse_option_name applied to a name "<TICKER> $<strike> <Put|Call> <Mon>
\* <day>, '<yy>" (with a day the month has) returns the first token as ticker,
\* the number after the '$' as strike, the option type the third token names and
\* the date the last three tokens spell.
C31_ParseOptionName ==
    (/\ ran.op = "parse_option_name"
     /\ ~(ran.input.mon.month = 2 /\ ran.input.day.day = 29
            /\ ran.input.yy.year % 4 # 0)) =>
        /\ ~ran.output.panic
        /\ ran.output.ticker = ran.input.ticker
        /\ ran.output.strike = Some([mantissa |-> ran.input.strike.mantissa,
                                     decimals |-> ran.input.strike.decimals])
        /\ ran.output.op_type = Some(ran.input.type.op_type)
        /\ ran.output.expiration = Some([year |-> ran.input.yy.year,
                                         month |-> ran.input.mon.month,
                                         day |-> ran.input.day.day])

\* "QCOM $138 Put Feb 20, '26" gives QCOM, 138, PUT, 2026-02-20
C31_Witness ==
    /\ ran.op = "parse_option_name"
    /\ ran.input.name = << "Q", "C", "O", "M", " ", "$", "1", "3", "8", " ",
                           "P", "u", "t", " ", "F", "e", "b", " ", "2", "0", ",",
                           " ", "'", "2", "6" >>
    /\ ran.output = [panic |-> FALSE, ticker |-> << "Q", "C", "O", "M" >>,
                     strike |-> Some([mantissa |-> 138, decimals |-> 0]),
                     op_type |-> Some("PUT"),
                     expiration |-> Some([year |-> 2026, month |-> 2, day |-> 20])]

\* the numeric fields of quote q that Quote declares Option<u64> hold a number
\* or null, and volume a number
NullableSizes(q) ==
    /\ q.bidSize \in {"number", "null"}
    /\ q.askSize \in {"number", "null"}
    /\ q.openInterest \in {"number", "null"}
    /\ q.volume = "number"

\* C32: a 2xx option-chain body with baseSymbol, calls and puts whose quotes have
\* null (or a number) as bidSize, askSize and openInterest decodes as OptionChain:
\* get_option_chain returns Ok, not MalformedJsonResponse.
C32_NullSizesDecode ==
    (/\ ran.op = "get_option_chain"
     /\ ran.input.baseSymbol = "string"
     /\ \A i \in 1..Len(ran.input.calls) : NullableSizes(ran.input.calls[i])
     /\ \A i \in 1..Len(ran.input.puts) : NullableSizes(ran.input.puts[i])) =>
        /\ ran.output.ok
        /\ ran.output.err.code # "MalformedJsonResponse"

\* a put whose bidSize is null, as in the body of tests::test_parse_option_chain
C32_Witness ==
    /\ ran.op = "get_option_chain"
    /\ ran.input.baseSymbol = "string"
    /\ Len(ran.input.calls) = 1 /\ NullableSizes(ran.input.calls[1])
    /\ ran.input.puts = << [bidSize |-> "null", askSize |-> "number",
                            openInterest |-> "number", volume |-> "number"] >>
    /\ ran.output.ok

\* C33 (as claimed): no interleaving of concurrent calls reaches a RefCell borrow
\* conflict: no call is at `self.creds.borrow_mut().refresh(..)` while another
\* call in flight holds a shared borrow of the store, and so none panics there.
C33_NoBorrowConflict ==
    \A c \in Calls :
        /\ pc[c] = "exchange_resp" => CanBorrowMut(readers \ {c})
        /\ pc[c] # "panicked"

\* C34: a business call that ends in a non-2xx response (a rejected token
\* included) or in a transport failure leaves the store and the persisted file as
\* they were and runs no Creds::refresh; a call made after it, at any instant
\* before the stored expiry, gets from the store the token it held before, and
\* before that expiry no call is on its way to a refresh that would replace it.
C34_FailureKeepsToken ==
    /\ [][\A c \in Calls :
            (pc[c] = "request" /\ pc'[c] = "idle" /\ result'[c] # "ok") =>
                /\ data' = data
                /\ file' = file
                /\ refreshLog' = refreshLog
                /\ refreshedAt' = refreshedAt
                /\ readers' = readers
                /\ \A t \in Instants :
                       Creds_access_token(data', t) = Creds_access_token(data, t)]_vars
    /\ []((IsSome(data) /\ now < Unwrap(data).token_ttl) =>
             \A c \in Calls : pc[c] \notin {"vault", "exchange", "exchange_resp"})

\* a call that used the cached token failed; the token is still in the store and
\* another call presents it
C34_Witness ==
    \E c, c2 \in Calls :
        /\ c # c2
        /\ pc[c] = "idle" /\ result[c] = "ServiceError"
        /\ refreshLog = << >>
        /\ IsSome(data) /\ now < Unwrap(data).token_ttl
        /\ pc[c2] = "request" /\ trace[c2] = << "request" >>
        /\ sent[c2] = Some(Unwrap(data).token)

\* C35 (as claimed): after a completed Creds::refresh, none of whose writes of the
\* persisted file has returned an error, the file holds exactly the token and the
\* expiry of the entry in memory (here: after the first refresh of the process).
C35_FileMatchesStore ==
    (Len(refreshLog) = 1 /\ ~saveFailed) =>
        /\ IsSome(data)
        /\ file = JsonFile(Unwrap(data))

\* C36: an account-scoped method that fails with MissingAccountId has done
\* nothing: no token resolution (no vault fetch, no token exchange), no HTTP
\* request, and store, persisted file and account id are as before the call.
C36_MissingAccountIdNoEffect ==
    [][(/\ last = NoCall
        /\ last'.op \in AccountScoped
        /\ last'.result = Err(MissingAccountId)) =>
            /\ ~last'.resolved
            /\ last'.tok = Err(NoError)
            /\ last'.x = NotSent
            /\ last'.h = NotSent
            /\ account_id' = account_id
            /\ tokenVars' = tokenVars]_vars

\* get_quotes on a client without account id, called with an exchange and a
\* server that would both have answered
C36_Witness ==
    /\ last.op = "get_quotes"
    /\ last.result = Err(MissingAccountId)
    /\ last.had = None /\ account_id = None
    /\ ~last.resolved
    /\ last.x = NotSent /\ last.h = NotSent

\* C37: a set_account that fails (token resolution, the accounts request, the
\* decoding, or no account of the requested type) leaves the account id the
\* client had; the account id changes only in a set_account that succeeds.
C37_AccountIdOnlyOnSuccess ==
    [][/\ (last = NoCall /\ last'.op = "set_account" /\ ~last'.result.ok) =>
              account_id' = account_id
       /\ account_id' # account_id =>
              /\ last'.op = "set_account"
              /\ last'.result.ok
              /\ IsSome(account_id')]_vars

\* a client with an account id asks for a type the list does not have and keeps
\* its account id
C37_Witness ==
    /\ last.op = "set_account"
    /\ last.result = Err(AccountTypeNotFound)
    /\ IsSome(last.had)
    /\ account_id = last.had

\* C38: a store built by Creds::new from a persisted file holds the token with
\* the expiry the file records, never a later one: it returns the token at the
\* instants before that expiry and None from the expiry on, at the first start
\* of the process as after a restart.
C38_ReloadKeepsExpiry ==
    /\ file.kind = "json" =>
           /\ data = Some([token |-> file.token, token_ttl |-> file.token_ttl])
           /\ \A t \in Instants :
                  Creds_access_token(data, t) =
                      IF t < file.token_ttl THEN Some(file.token) ELSE None
    /\ [][(Restart /\ file.kind = "json") =>
            /\ data' = Some([token |-> file.token, token_ttl |-> file.token_ttl])
            /\ \A t \in Instants :
                   Creds_access_token(data', t) =
                       IF t < file.token_ttl THEN Some(file.token) ELSE None]_vars

\* a process restarted at or after the expiry its predecessor saved: the store
\* holds the saved token and returns None
C38_Witness ==
    /\ boot = "saved"
    /\ refreshLog = << >>
    /\ file.kind = "json" /\ file.token >= 1
    /\ data = Some([token |-> file.token, token_ttl |-> file.token_ttl])
    /\ now >= file.token_ttl
    /\ Creds_access_token(data, now) = None
    /\ \A c \in Calls : pc[c] = "idle"

\* C39 (as claimed): every call of an API method terminates with one outcome, Ok
\* or an error, provided each external step it waits for returns.
C39_EveryCallReturns ==
    \A c \in Calls : (pc[c] # "idle") ~> (pc[c] = "idle" /\ result[c] # "none")

\* the quote lines printed right after the line `heading`, up to the next line
\* that is no quote line
PrintedUnder(printed, heading) ==
    LET at == CHOOSE i \in 1..Len(printed) : printed[i].fmt = heading
        ends == {j \in (at + 1)..(Len(printed) + 1) :
                    j = Len(printed) + 1 \/ printed[j].fmt # QuoteFormat}
    IN SubSeq(printed, at + 1, (CHOOSE j \in ends : \A k \in ends : j <= k) - 1)

\* C40 (as claimed): a successful analyze_option prints under "Calls:" one line
\* per quote of chain.calls, in list order, and under "Puts:" one line per quote
\* of chain.puts, in list order.
C40_CallsUnderCalls ==
    (ran.op = "analyze_option" /\ ran.output.ok) =>
        /\ PrintedUnder(ran.output.printed, "Calls:") =
               PrintQuotes(Unwrap(ran.input.chain).calls)
        /\ PrintedUnder(ran.output.printed, "Puts:") =
               PrintQuotes(Unwrap(ran.input.chain).puts)

====
